---- MODULE Spec2Model ----
(***************************************************************************)
(* A state-machine model of src/assistant.py: the entrypoint coroutine,    *)
(* the _answer tasks created by the two event handlers, and the            *)
(* process_video task, all running on one asyncio event loop.              *)
(*                                                                         *)
(* Texts are sequences of code points (<<97>> is "a", <<>> is ""), so that *)
(* bytes.decode is an operator on byte sequences.  A message of the chat   *)
(* context carries, besides role, text and image, the id of the turn that  *)
(* appended it (0 for the system message): a history tag the program does  *)
(* not store, used only to state properties.                               *)
(***************************************************************************)
EXTENDS Integers, Sequences, FiniteSets, TLC

\* ---------------------------------------------------------------- bounds
MaxTurns == 3          \* turns (voice or _answer) created in one behaviour
MaxFrames == 2         \* frames the video streams produce in one behaviour
MaxParticipants == 2   \* remote participants in the room
MaxPublications == 3   \* track publications in the room, of all participants
MaxCalls == 2          \* entries of one called_functions list

VARIABLES
    connection_state,  \* ctx.room.connection_state
    room,              \* ctx.room.remote_participants: a sequence (dict order)
                       \* of participants, each the sequence of its publications
    mpc,               \* position of entrypoint
    vpc,               \* position of process_video
    video_track,       \* the track process_video reads: <<p, i>>, or <<>>
    latest_image,      \* the nonlocal latest_image: 0 is None, n > 0 a frame
    frames,            \* history: number of frames written so far
    chat_context,      \* chat_context.messages
    ready,             \* the event loop's FIFO of created, not yet run _answer tasks
    turn,              \* the turns created so far, by id 1..Len(turn)
    log                \* the kinds of line the program has printed

vars == << connection_state, room, mpc, vpc, video_track, latest_image, frames,
           chat_context, ready, turn, log >>

roomVars == << connection_state, room >>
videoVars == << vpc, video_track, latest_image, frames >>
turnVars == << chat_context, ready, turn >>

\* ------------------------------------------------------------- the room
\* A publication: its track is None (not subscribed), an audio track or a
\* video track.
TrackKinds == {"None", "RemoteAudioTrack", "RemoteVideoTrack"}

\* src/assistant.py:24-26: track is not None and isinstance(track, RemoteVideoTrack)
IsVideoTrack(pub) == pub # "None" /\ pub = "RemoteVideoTrack"

\* The inner for loop of get_video_track over one participant: the index of
\* the first video track (where it breaks), 0 when the participant has none.
FirstVideoOf(pubs) ==
    IF \E i \in 1..Len(pubs) : IsVideoTrack(pubs[i])
    THEN CHOOSE i \in 1..Len(pubs) :
            /\ IsVideoTrack(pubs[i])
            /\ \A j \in 1..(i - 1) : ~IsVideoTrack(pubs[j])
    ELSE 0

\* The outer for loop: the participants, in dict order, on which the inner
\* loop calls video_track.set_result.
SetResultCalls(r) ==
    LET Idx == {p \in 1..Len(r) : FirstVideoOf(r[p]) # 0}
        RECURSIVE Ordered(_, _)
        Ordered(p, acc) ==
            IF p > Len(r) THEN acc
            ELSE Ordered(p + 1, IF p \in Idx THEN Append(acc, p) ELSE acc)
    IN Ordered(1, <<>>)

\* get_video_track(room).  The break leaves only the inner loop, so the
\* outer loop goes on to the next participant: a second set_result on the
\* future, already done, raises asyncio.InvalidStateError.  With no call the
\* future stays pending and the await never returns.
get_video_track(r) ==
    LET calls == SetResultCalls(r) IN
    IF Len(calls) = 0 THEN [outcome |-> "pending", track |-> <<>>]
    ELSE IF Len(calls) = 1
         THEN [outcome |-> "returned",
               track |-> <<calls[1], FirstVideoOf(r[calls[1]])>>]
         ELSE [outcome |-> "InvalidStateError", track |-> <<>>]

\* ---------------------------------------------------- transport and room
\* A remote participant joins: a new entry at the end of remote_participants.
ParticipantConnected ==
    /\ connection_state = "connected"
    /\ Len(room) < MaxParticipants
    /\ room' = Append(room, <<>>)
    /\ UNCHANGED << connection_state, mpc, videoVars, turnVars, log >>

RECURSIVE Publications(_)
Publications(r) == IF r = <<>> THEN 0 ELSE Len(Head(r)) + Publications(Tail(r))

\* A participant publishes a track: a new entry at the end of its
\* track_publications, subscribed (audio or video) or not yet (None).
TrackPublished ==
    /\ connection_state = "connected"
    /\ Publications(room) < MaxPublications
    /\ \E p \in 1..Len(room), k \in TrackKinds :
          room' = [room EXCEPT ![p] = Append(@, k)]
    /\ UNCHANGED << connection_state, mpc, videoVars, turnVars, log >>

\* The subscription of a published video track completes.
TrackSubscribed ==
    /\ connection_state = "connected"
    /\ \E p \in 1..Len(room) : \E i \in 1..Len(room[p]) :
          /\ room[p][i] = "None"
          /\ room' = [room EXCEPT ![p][i] = "RemoteVideoTrack"]
    /\ UNCHANGED << connection_state, mpc, videoVars, turnVars, log >>

\* The transport is lost.
Disconnected ==
    /\ connection_state = "connected"
    /\ connection_state' = "disconnected"
    /\ UNCHANGED << room, mpc, videoVars, turnVars, log >>

\* A variant that creates the task of process_video before the greeting.
SleepDoneStartsVideo ==
    /\ mpc = "sleep"
    /\ mpc' = "greeting"
    /\ vpc' = "test"
    /\ UNCHANGED << roomVars, video_track, latest_image, frames, turnVars, log >>

\* ------------------------------------------------------------ entrypoint
\* src/assistant.py:135: the sleep after assistant.start returns and the
\* greeting is handed to assistant.say.
SleepDone ==
    /\ mpc = "sleep"
    /\ mpc' = "greeting"
    /\ UNCHANGED << roomVars, videoVars, turnVars, log >>

\* src/assistant.py:136-154: the greeting's say returns; process_video is
\* created as a task and entrypoint enters its keep-alive loop.
GreetingDone ==
    /\ mpc = "greeting"
    /\ mpc' = "keepalive"
    /\ vpc' = "test"
    /\ UNCHANGED << roomVars, video_track, latest_image, frames, turnVars, log >>

\* src/assistant.py:157-158: one test of the keep-alive loop's condition.
KeepAlive ==
    /\ mpc = "keepalive"
    /\ mpc' = IF connection_state = "connected" THEN "keepalive" ELSE "returned"
    /\ UNCHANGED << roomVars, videoVars, turnVars, log >>

\* --------------------------------------------------------- process_video
\* src/assistant.py:143-146: the while test and, with no suspension in
\* between, the call of get_video_track up to its await.
VideoLoopTest ==
    /\ vpc = "test"
    /\ IF connection_state # "connected"
       THEN /\ vpc' = "stopped"
            /\ UNCHANGED << video_track, log >>
       ELSE LET got == get_video_track(room) IN
            /\ vpc' = CASE got.outcome = "pending" -> "await_future"
                        [] got.outcome = "returned" -> "stream"
                        [] OTHER -> "backoff"
            /\ video_track' = got.track
            /\ log' = log \cup
                 CASE got.outcome = "pending" -> {}
                   [] got.outcome = "returned" -> {"using_track"}
                   [] OTHER -> {"using_track", "video_error"}
    /\ UNCHANGED << roomVars, mpc, latest_image, frames, turnVars >>

\* src/assistant.py:146-148: the stream yields a frame; it becomes
\* latest_image.  Frames are numbered in the order they are produced.
VideoFrame ==
    /\ vpc = "stream"
    /\ frames < MaxFrames
    /\ frames' = frames + 1
    /\ latest_image' = frames + 1
    /\ UNCHANGED << roomVars, mpc, vpc, video_track, turnVars, log >>

\* src/assistant.py:146: the stream ends (the async for is exhausted); the
\* loop goes back to its test.
VideoStreamEnd ==
    /\ vpc = "stream"
    /\ vpc' = "test"
    /\ video_track' = <<>>
    /\ UNCHANGED << roomVars, mpc, latest_image, frames, turnVars, log >>

\* A variant whose handler also forgets the cached frame.
VideoStreamErrorClears ==
    /\ vpc = "stream"
    /\ vpc' = "backoff"
    /\ video_track' = <<>>
    /\ latest_image' = 0
    /\ log' = log \cup {"video_error"}
    /\ UNCHANGED << roomVars, mpc, frames, turnVars >>

\* src/assistant.py:149-151: the stream raises; the handler prints the error
\* and sleeps.
VideoStreamError ==
    /\ vpc = "stream"
    /\ vpc' = "backoff"
    /\ video_track' = <<>>
    /\ log' = log \cup {"video_error"}
    /\ UNCHANGED << roomVars, mpc, latest_image, frames, turnVars >>

\* A variant whose handler leaves the loop after its sleep.
VideoBackoffGivesUp ==
    /\ vpc = "backoff"
    /\ vpc' = "stopped"
    /\ UNCHANGED << roomVars, mpc, video_track, latest_image, frames, turnVars, log >>

\* src/assistant.py:151: the sleep of the handler returns.
VideoBackoffDone ==
    /\ vpc = "backoff"
    /\ vpc' = "test"
    /\ UNCHANGED << roomVars, mpc, video_track, latest_image, frames, turnVars, log >>

\* ------------------------------------------------------- turns: helpers
PacketKinds == {"KIND_RELIABLE", "KIND_LOSSY"}

\* The payloads of the data packets: "a" and a byte that is no UTF-8.
Payloads == { <<97>>, <<255>> }

\* src/assistant.py:117: data.data.decode("utf-8") on payloads of one-byte
\* characters: a byte below 128 is its code point, any other byte here is an
\* invalid start byte and decode raises UnicodeDecodeError.
DecodeRaises(bytes) == \E i \in 1..Len(bytes) : bytes[i] >= 128
decode(bytes) == [i \in 1..Len(bytes) |-> bytes[i]]

\* The arguments of one called function: a dict, as its set of (key, value)
\* pairs, that holds user_msg or not.
UserMsgs == { <<>>, <<98>> }
Arguments == { {} } \cup { { <<"user_msg", v>> } : v \in UserMsgs }

\* The called_functions lists of a function_calls_finished event.
RECURSIVE ListsUpTo(_, _)
ListsUpTo(S, n) ==
    IF n = 0 THEN { <<>> }
    ELSE LET shorter == ListsUpTo(S, n - 1) IN
         shorter \cup { Append(l, x) : l \in {m \in shorter : Len(m) = n - 1}, x \in S }
CalledFunctions == ListsUpTo([arguments : Arguments], MaxCalls)

\* src/assistant.py:128: arguments.get("user_msg"): the set holding the
\* value, or the empty set for None.
get_user_msg(arguments) ==
    { kv[2] : kv \in { x \in arguments : x[1] = "user_msg" } }

\* src/assistant.py:129: if user_msg: None and "" are false.
Truthy(opt) == \E v \in opt : Len(v) > 0

\* A variant that attaches whatever the cache holds, asked for or not.
AnswerImageAlways(use_image, img) == img

\* src/assistant.py:103-106: the image of the content _answer builds: the
\* latest image when use_image and latest_image are both true, else none.
AnswerImage(use_image, img) == IF use_image /\ img # 0 THEN img ELSE 0

\* A variant whose request declares the assistant's functions.
AnswerFncCtxDeclared == TRUE

\* src/assistant.py:110: gpt.chat(chat_ctx=chat_context) passes no fnc_ctx,
\* so the request of an _answer turn declares no callable function.
AnswerFncCtx == FALSE

\* A variant that runs the task created last.
NextTaskLast(q) == q[Len(q)]

\* The event loop runs the tasks created by asyncio.create_task in the order
\* of their creation: the next one to run is the head of the FIFO.
NextTask(q) == Head(q)

Speaking == { t \in 1..Len(turn) : turn[t].phase = "speaking" }

\* History of a created turn, kept for the properties until its first step:
\* the turn that was speaking when its trigger arrived (0 if none).
SpeakingNow == IF Speaking = {} THEN 0 ELSE CHOOSE s \in Speaking : TRUE

\* asyncio.create_task(_answer(text, use_image)), src/assistant.py:119, 131.
\* root is the turn, not itself a re-answer, whose function call led to this
\* one (0 for a packet); fc tells that the response has called functions
\* and user_msg is what the handler then read at line 128.
NewAnswer(text, use_image, root) ==
    [kind |-> "answer", text |-> text, use_image |-> use_image,
     fnc_ctx |-> AnswerFncCtx, phase |-> "created", fc |-> FALSE,
     user_msg |-> {}, root |-> root, spoke |-> SpeakingNow]

Origin(src) == IF turn[src].root = 0 THEN src ELSE turn[src].root

\* --------------------------------------------------------------- handlers
\* src/assistant.py:113-119: the body of on_data_received for one packet:
\* the kind is tested first (line 116), then the payload is decoded (117,
\* where UnicodeDecodeError leaves the handler), logged (118) and a task of
\* _answer(text, use_image=False) is created (119).
DataPacket(kind, data) ==
    IF kind = "KIND_RELIABLE" /\ ~DecodeRaises(data)
    THEN /\ log' = log \cup {"received_text"}
         /\ turn' = Append(turn, NewAnswer(decode(data), FALSE, 0))
         /\ ready' = Append(ready, Len(turn) + 1)
         /\ UNCHANGED chat_context
    ELSE UNCHANGED << turnVars, log >>

\* src/assistant.py:113-119: on_data_received, for any packet of the room.
on_data_received ==
    /\ connection_state = "connected"
    /\ Len(turn) < MaxTurns
    /\ \E kind \in PacketKinds, data \in Payloads : DataPacket(kind, data)
    /\ UNCHANGED << roomVars, mpc, videoVars >>

\* A variant that reads the last of the called functions.
on_function_calls_finished_last(called_functions, src) ==
    IF Len(called_functions) = 0
    THEN UNCHANGED << turn, ready, log >>
    ELSE LET user_msg == get_user_msg(called_functions[Len(called_functions)].arguments) IN
         IF Truthy(user_msg)
         THEN /\ log' = log \cup {"fc_finished"}
              /\ turn' = Append([turn EXCEPT ![src].fc = TRUE, ![src].user_msg = user_msg],
                                NewAnswer(CHOOSE v \in user_msg : TRUE, TRUE, Origin(src)))
              /\ ready' = Append(ready, Len(turn) + 1)
         ELSE /\ turn' = [turn EXCEPT ![src].fc = TRUE, ![src].user_msg = user_msg]
              /\ UNCHANGED << ready, log >>

\* src/assistant.py:121-131: on_function_calls_finished, called by the
\* assistant with the functions the response of turn src called.
on_function_calls_finished(called_functions, src) ==
    IF Len(called_functions) = 0
    THEN UNCHANGED << turn, ready, log >>
    ELSE LET user_msg == get_user_msg(called_functions[1].arguments) IN
         IF Truthy(user_msg)
         THEN /\ log' = log \cup {"fc_finished"}
              /\ turn' = Append([turn EXCEPT ![src].fc = TRUE,
                                              ![src].user_msg = user_msg],
                                NewAnswer(CHOOSE v \in user_msg : TRUE, TRUE,
                                          Origin(src)))
              /\ ready' = Append(ready, Len(turn) + 1)
         ELSE /\ turn' = [turn EXCEPT ![src].fc = TRUE,
                                     ![src].user_msg = user_msg]
              /\ UNCHANGED << ready, log >>

\* ---------------------------------------------------------------- _answer
\* A variant that puts the user message in front of the context.
AnswerStepInsertsFirst ==
    /\ ready # <<>>
    /\ LET t == NextTask(ready)
           img == AnswerImage(turn[t].use_image, latest_image) IN
       /\ log' = IF img # 0 THEN log \cup {"using_image"} ELSE log
       /\ chat_context' =
              << [role |-> "user", text |-> turn[t].text, image |-> img, turn |-> t] >>
              \o chat_context
       /\ turn' = [turn EXCEPT ![t].phase = "awaiting", ![t].spoke = 0]
       /\ ready' = SelectSeq(ready, LAMBDA u : u # t)
    /\ UNCHANGED << roomVars, mpc, videoVars >>

\* A variant that takes the image out of the cache when it attaches it.
AnswerStepConsumes ==
    /\ ready # <<>>
    /\ LET t == NextTask(ready)
           img == AnswerImage(turn[t].use_image, latest_image) IN
       /\ log' = IF img # 0 THEN log \cup {"using_image"} ELSE log
       /\ chat_context' = Append(chat_context,
              [role |-> "user", text |-> turn[t].text, image |-> img, turn |-> t])
       /\ turn' = [turn EXCEPT ![t].phase = "awaiting", ![t].spoke = 0]
       /\ ready' = SelectSeq(ready, LAMBDA u : u # t)
       /\ latest_image' = IF img # 0 THEN 0 ELSE latest_image
    /\ UNCHANGED << roomVars, mpc, vpc, video_track, frames >>

\* src/assistant.py:98-111: the first step of the next created _answer task,
\* which runs without suspension up to the await of assistant.say: build the
\* content, append the user message, issue the language-model call on the
\* chat context.
AnswerStep ==
    /\ ready # <<>>
    /\ LET t == NextTask(ready)
           img == AnswerImage(turn[t].use_image, latest_image) IN
       /\ log' = IF img # 0 THEN log \cup {"using_image"} ELSE log
       /\ chat_context' = Append(chat_context,
              [role |-> "user", text |-> turn[t].text, image |-> img, turn |-> t])
       /\ turn' = [turn EXCEPT ![t].phase = "awaiting", ![t].spoke = 0]
       /\ ready' = SelectSeq(ready, LAMBDA u : u # t)
    /\ UNCHANGED << roomVars, mpc, videoVars >>

\* ------------------------------------------------ the assistant's own turn
\* src/assistant.py:89-96: the VoiceAssistant, started on the room, answers
\* recognized speech itself: it appends the user message to the same chat
\* context and issues a language-model call with fnc_ctx=AssistantFunction().
SpeechRecognized ==
    /\ connection_state = "connected"
    /\ Len(turn) < MaxTurns
    /\ chat_context' = Append(chat_context,
          [role |-> "user", text |-> <<118>>, image |-> 0, turn |-> Len(turn) + 1])
    /\ turn' = Append(turn,
          [kind |-> "voice", text |-> <<118>>, use_image |-> FALSE,
           fnc_ctx |-> TRUE, phase |-> "awaiting", fc |-> FALSE,
           user_msg |-> {}, root |-> 0, spoke |-> 0])
    /\ UNCHANGED << roomVars, mpc, videoVars, ready, log >>

\* --------------------------------------------- providers (lines 110, 111)
\* src/assistant.py:110: the chat_ctx of the request of turn t is the object
\* chat_context itself, not a copy of its messages: what the provider
\* observes through it, at any time it reads, is the messages as they are.
RequestMessages(t) == chat_context

\* The response is prose: assistant.say starts to speak it (one speech is
\* played at a time).
LLMProse ==
    /\ Speaking = {}
    /\ \E t \in 1..Len(turn) :
          /\ turn[t].phase = "awaiting"
          /\ turn' = [turn EXCEPT ![t].phase = "speaking"]
    /\ UNCHANGED << roomVars, mpc, videoVars, chat_context, ready, log >>

\* The response calls functions of the request's fnc_ctx: the assistant runs
\* them and emits function_calls_finished, whose handler runs at once.
LLMFunctionCall ==
    /\ Len(turn) < MaxTurns
    /\ \E t \in 1..Len(turn), called_functions \in CalledFunctions :
          /\ turn[t].phase = "awaiting"
          /\ turn[t].fnc_ctx
          /\ ~turn[t].fc
          /\ on_function_calls_finished(called_functions, t)
    /\ UNCHANGED << roomVars, mpc, videoVars, chat_context >>

\* The language-model call fails: the exception leaves _answer at its await
\* (src/assistant.py:111, no handler) and ends the task.
LLMFail ==
    /\ \E t \in 1..Len(turn) :
          /\ turn[t].phase = "awaiting"
          /\ turn' = [turn EXCEPT ![t].phase = "raised"]
    /\ UNCHANGED << roomVars, mpc, videoVars, chat_context, ready, log >>

\* The speech synthesis fails while the reply is spoken.
TTSFail ==
    /\ \E t \in Speaking :
          turn' = [turn EXCEPT ![t].phase = "raised"]
    /\ UNCHANGED << roomVars, mpc, videoVars, chat_context, ready, log >>

\* A variant in which the reply takes the place of the last message.
SpeechEndRewrites ==
    /\ \E t \in Speaking :
          /\ turn' = [turn EXCEPT ![t].phase = "done"]
          /\ chat_context' = [chat_context EXCEPT ![Len(chat_context)] =
                [role |-> "assistant", text |-> <<82>>, image |-> 0, turn |-> t]]
    /\ UNCHANGED << roomVars, mpc, videoVars, ready, log >>

\* The speech ends, played to its end or interrupted by the user's voice
\* (allow_interruptions=True): the assistant appends what was spoken to its
\* chat context, which is chat_context (src/assistant.py:95).
SpeechEnd ==
    /\ \E t \in Speaking :
          /\ turn' = [turn EXCEPT ![t].phase = "done"]
          /\ chat_context' = Append(chat_context,
                [role |-> "assistant", text |-> <<82>>, image |-> 0, turn |-> t])
    /\ UNCHANGED << roomVars, mpc, videoVars, ready, log >>

\* ----------------------------------------------------------------- Init
\* src/assistant.py:35-59, 133: connected, the chat context holds the system
\* message, latest_image is None, the handlers are registered and the
\* assistant started; entrypoint is at its first sleep.
SystemMessage == [role |-> "system", text |-> <<83>>, image |-> 0, turn |-> 0]

InitWith(r) ==
    /\ connection_state = "connected"
    /\ room = r
    /\ mpc = "sleep"
    /\ vpc = "off"
    /\ video_track = <<>>
    /\ latest_image = 0
    /\ frames = 0
    /\ chat_context = << SystemMessage >>
    /\ ready = <<>>
    /\ turn = <<>>
    /\ log = {"room_name"}

\* The session and the video ingest loop.
Lifecycle ==
    \/ Disconnected
    \/ SleepDone
    \/ GreetingDone
    \/ KeepAlive
    \/ VideoLoopTest
    \/ VideoFrame
    \/ VideoStreamEnd
    \/ VideoStreamError
    \/ VideoBackoffDone

\* The turns.  They read of the rest only latest_image and the connection
\* state, so they are explored from the state the session is in once it is
\* established: one participant publishes its camera, the greeting is over
\* and process_video reads the camera's stream (reached from VideoInit by
\* ParticipantConnected, TrackPublished, SleepDone, GreetingDone and
\* VideoLoopTest), and with the steps that change what the turns read.
Init ==
    /\ connection_state = "connected"
    /\ room = << <<"RemoteVideoTrack">> >>
    /\ mpc = "keepalive"
    /\ vpc = "stream"
    /\ video_track = <<1, 1>>
    /\ latest_image = 0
    /\ frames = 0
    /\ chat_context = << SystemMessage >>
    /\ ready = <<>>
    /\ turn = <<>>
    /\ log = {"room_name", "using_track"}

Next ==
    \/ VideoFrame
    \/ on_data_received
    \/ AnswerStep
    \/ SpeechRecognized
    \/ LLMProse
    \/ LLMFunctionCall
    \/ LLMFail
    \/ TTSFail
    \/ SpeechEnd

Spec == Init /\ [][Next]_vars

\* The video ingest loop, from the state entrypoint is in after
\* assistant.start, in a room that participants join and publish to.
VideoInit == InitWith(<<>>)

VideoNext ==
    \/ Lifecycle
    \/ ParticipantConnected
    \/ TrackPublished
    \/ TrackSubscribed

\* The event loop runs every task that is ready: a step of entrypoint or of
\* process_video that stays possible is eventually taken.  Nothing is assumed
\* of the room, the transport or the stream.
VideoFairness ==
    /\ WF_vars(SleepDone)
    /\ WF_vars(GreetingDone)
    /\ WF_vars(KeepAlive)
    /\ WF_vars(VideoLoopTest)
    /\ WF_vars(VideoBackoffDone)

VideoSpec == VideoInit /\ [][VideoNext]_vars /\ VideoFairness

\* ----------------------------------------------------------- StartupSpec
\* The startup of entrypoint together with the triggers: the handlers are
\* registered (lines 113-131) and the assistant is started (line 133) before
\* the sleep and the greeting, so packets, recognized speech and function
\* calls arrive while mpc is still at "sleep" or "greeting".  One participant
\* publishes its camera from the start.
StartupInit == InitWith(<< <<"RemoteVideoTrack">> >>)

StartupNext ==
    \/ Lifecycle
    \/ on_data_received
    \/ SpeechRecognized
    \/ LLMFunctionCall
    \/ AnswerStep

StartupSpec == StartupInit /\ [][StartupNext]_vars

\* ================================================================ claims
Turns == 1..Len(turn)
Answers == { t \in Turns : turn[t].kind = "answer" }

\* The turns in Composing or Awaiting-Model: the user message is appended,
\* the language-model call issued and the speaking not started.
Reasoning == { t \in Answers : turn[t].phase = "awaiting" }

\* The step of turn t from created to issued: lines 103-111 of _answer.
Composes(t) == turn[t].phase = "created" /\ turn'[t].phase = "awaiting"

\* C1: turns are serialized: at no time are two turns started by triggers
\* (packets or function-call completions) both in Composing/Awaiting-Model.
C1_Serialized == Cardinality(Reasoning) <= 1

\* C2: the user messages appended by _answer are in the chat context in the
\* order in which their triggers arrived (turn ids count the arrivals).
C2_FIFO ==
    LET appended == { i \in 1..Len(chat_context) :
                        /\ chat_context[i].role = "user"
                        /\ turn[chat_context[i].turn].kind = "answer" }
    IN \A i, j \in appended :
          i < j => chat_context[i].turn < chat_context[j].turn

\* Two user messages of _answer are in the context, the first from a packet
\* and the second from a function-call completion.
C2_Witness ==
    \E i, j \in 1..Len(chat_context) :
        /\ i < j
        /\ chat_context[i].turn \in Answers
        /\ chat_context[j].turn \in Answers
        /\ chat_context[i].role = "user"
        /\ chat_context[j].role = "user"
        /\ turn[chat_context[i].turn].root = 0
        /\ turn[chat_context[j].turn].root # 0

\* C3: when the turn of a trigger that arrived while a reply of _answer was
\* being spoken is composed (the one scheduling step after its arrival), that
\* speech has been cancelled: the turn that was speaking is no longer speaking.
C3_Interrupts ==
    [][ \A t \in Turns :
          (Composes(t) /\ turn[t].spoke \in Answers)
          => turn'[turn[t].spoke].phase # "speaking" ]_vars

\* The re-issued reasoning calls made for turn t: the _answer turns with
\* use_image = true that its function call led to.
ReAnswers(t) == { u \in Answers : turn[u].root = t /\ turn[u].use_image }

\* C4, as stated: every turn whose response called the image function has
\* exactly one re-issued reasoning call with use_image = true.
C4_ExactlyOne == \A t \in Turns : turn[t].fc => Cardinality(ReAnswers(t)) = 1

\* C4, amended: a turn whose response called the image function has exactly
\* one re-issued call with use_image = true when the user_msg of the first
\* call is non-empty, none when it is missing or empty, and never more than
\* one; a turn whose response called nothing has none.
C4_AtMostOne ==
    \A t \in Turns :
        LET n == Cardinality(ReAnswers(t)) IN
        /\ n <= 1
        /\ n = (IF turn[t].fc /\ Truthy(turn[t].user_msg) THEN 1 ELSE 0)

\* A turn's response called image with a usable user_msg and the re-issued
\* turn has run to its end.
C4_Witness ==
    \E t \in Turns : \E u \in ReAnswers(t) :
        turn[t].fc /\ Truthy(turn[t].user_msg) /\ turn[u].phase = "done"

\* C5: the append of another turn's user message by _answer does not change
\* the messages that the request of a turn of _answer, issued and still in
\* flight, observes.
C5_Snapshot ==
    [][ \A t \in Answers, u \in Turns :
          (turn[t].phase = "awaiting" /\ turn'[t].phase = "awaiting" /\ Composes(u))
          => RequestMessages(t)' = RequestMessages(t) ]_vars

\* C6: a turn of _answer whose language-model or speech-synthesis call
\* failed has surfaced as an apology, spoken or logged.
C6_Apology ==
    \A t \in Answers :
        turn[t].phase = "raised"
        => \/ "apology" \in log
           \/ \E i \in 1..Len(chat_context) :
                 chat_context[i].role = "assistant" /\ chat_context[i].turn = t

\* C8: the user message that _answer appends holds the turn's text, holds an
\* image exactly when use_image is true and a frame has been written, and the
\* image is then the frame written last.
C8_ImageIff ==
    [][ \A t \in Turns :
          Composes(t) =>
            LET m == chat_context'[Len(chat_context')] IN
            /\ Len(chat_context') = Len(chat_context) + 1
            /\ m.role = "user" /\ m.turn = t /\ m.text = turn[t].text
            /\ (m.image # 0) <=> (turn[t].use_image /\ frames > 0)
            /\ m.image # 0 => m.image = frames ]_vars

\* A composed message holds the second frame, the later of two written, and
\* the context also holds a text-only user message of _answer.
C8_Witness ==
    /\ frames = 2
    /\ \E i, j \in 1..Len(chat_context) :
          /\ chat_context[i].turn \in Answers
          /\ chat_context[i].role = "user"
          /\ chat_context[i].image = 2
          /\ chat_context[j].turn \in Answers
          /\ chat_context[j].role = "user"
          /\ chat_context[j].image = 0

\* C13: after a function-call completion whose first call has no usable
\* user_msg (missing or empty), a plain-text turn of _answer has been started
\* for the turn that called.
C13_Fallback ==
    \A t \in Turns :
        (turn[t].fc /\ ~Truthy(turn[t].user_msg))
        => \E u \in Answers : turn[u].root = t /\ ~turn[u].use_image

\* C14: a turn of _answer that leaves Speaking has appended its reply to the
\* context as an assistant message, after its user message.
C14_ReplyAppended ==
    [][ \A t \in Answers :
          (turn[t].phase = "speaking" /\ turn'[t].phase # "speaking")
          => LET m == chat_context'[Len(chat_context')] IN
             /\ Len(chat_context') = Len(chat_context) + 1
             /\ m.role = "assistant" /\ m.turn = t
             /\ \E i \in 1..Len(chat_context) :
                   chat_context[i].role = "user" /\ chat_context[i].turn = t ]_vars

\* C15: the context is never empty and its first message is the system
\* message created at startup.
C15_SystemFirst ==
    /\ Len(chat_context) >= 1
    /\ chat_context[1] = SystemMessage
    /\ \A i \in 2..Len(chat_context) : chat_context[i].role # "system"

\* Two turns of _answer have appended their user messages and a reply has
\* been appended, behind the system message.
C15_Witness ==
    /\ Len(chat_context) >= 4
    /\ Cardinality({ i \in 1..Len(chat_context) :
                       /\ chat_context[i].role = "user"
                       /\ turn[chat_context[i].turn].kind = "answer" }) >= 2
    /\ \E i \in 1..Len(chat_context) : chat_context[i].role = "assistant"

\* C16: the context is append-only: every step leaves the messages it held
\* as a prefix of those it holds afterwards, and an invocation of _answer
\* appends exactly one user message: its step from created to issued appends
\* one, and no other step appends a user message of a turn of _answer.
C16_AppendOnly ==
    [][ LET n == Len(chat_context)
            last == chat_context'[Len(chat_context')] IN
        /\ Len(chat_context') \in {n, n + 1}
        /\ SubSeq(chat_context', 1, n) = chat_context
        /\ \A t \in Answers :
              Composes(t) => /\ Len(chat_context') = n + 1
                             /\ last.role = "user" /\ last.turn = t
        /\ ( /\ Len(chat_context') = n + 1
             /\ last.role = "user"
             /\ turn'[last.turn].kind = "answer" ) => Composes(last.turn) ]_vars

\* A reply was spoken to its end, another turn failed, and a function-call
\* completion has started a turn.
C16_Witness ==
    /\ \E t \in Answers : turn[t].phase = "done"
    /\ \E t \in Turns : turn[t].phase = "raised"
    /\ \E t \in Turns : turn[t].fc

\* C18: a function_calls_finished event starts at most one turn: with a
\* non-empty list whose first entry has a non-empty user_msg, exactly one
\* turn of _answer with that user_msg as text and use_image = true, whatever
\* the further entries hold; with an empty list no turn, and the context is
\* unchanged either way.  (A completion that changes anything marks fc of
\* the calling turn; one that changes nothing is no step to look at.)
C18_FirstEntryOnly ==
    [][ \A t \in Turns :
          (turn[t].phase = "awaiting" /\ turn[t].fnc_ctx /\ ~turn[t].fc /\ turn'[t].fc)
          => \A cf \in CalledFunctions :
                \/ LET n == Len(turn)
                       first == IF cf = <<>> THEN {}
                                ELSE { kv \in cf[1].arguments :
                                         kv[1] = "user_msg" /\ kv[2] # <<>> } IN
                   /\ chat_context' = chat_context
                   /\ IF first # {}
                      THEN /\ Len(turn') = n + 1
                           /\ turn'[n + 1].kind = "answer"
                           /\ turn'[n + 1].phase = "created"
                           /\ turn'[n + 1].use_image
                           /\ \E kv \in first : turn'[n + 1].text = kv[2]
                           /\ ready' = Append(ready, n + 1)
                      ELSE Len(turn') = n /\ ready' = ready
                \/ ~on_function_calls_finished(cf, t) ]_vars

\* A completion of two calls, of which only the first had a user_msg, has
\* started one turn with use_image and that text; another completion whose
\* first call had none has started no turn.
C18_Witness ==
    /\ \E t \in Turns, u \in Answers :
          /\ turn[t].fc /\ Truthy(turn[t].user_msg)
          /\ turn[u].root = t /\ turn[u].use_image
          /\ turn[u].text \in turn[t].user_msg
    /\ \E t \in Turns :
          /\ turn[t].fc /\ ~Truthy(turn[t].user_msg)
          /\ ~\E u \in Answers : turn[u].root = t

\* C19: a data packet starts a turn iff its kind is reliable: whenever the
\* handler runs, a reliable packet of any payload starts exactly one turn of
\* _answer with the payload's text and use_image = false, and a packet of
\* another kind changes nothing.
C19_ReliableIff ==
    (connection_state = "connected" /\ Len(turn) < MaxTurns)
    => \A kind \in PacketKinds, data \in Payloads :
          IF kind = "KIND_RELIABLE"
          THEN ENABLED ( /\ DataPacket(kind, data)
                         /\ Len(turn') = Len(turn) + 1
                         /\ turn'[Len(turn')].kind = "answer"
                         /\ turn'[Len(turn')].text = data
                         /\ ~turn'[Len(turn')].use_image
                         /\ UNCHANGED << chat_context, videoVars >> )
          ELSE ~ENABLED ( /\ DataPacket(kind, data)
                          /\ UNCHANGED << roomVars, mpc, videoVars >>
                          /\ vars' # vars )

\* ------------------------------------------------- claims of StartupSpec
\* C17: the writers are disjoint: a step of the video ingest loop changes
\* the frame cache or the loop's own state and leaves the conversation state
\* and the turns unchanged; a step of a turn or of a handler changes the
\* conversation state or the turns and leaves the frame cache as it was.
C17_DisjointWriters ==
    [][ /\ videoVars' # videoVars => turnVars' = turnVars
        /\ turnVars' # turnVars
              => latest_image' = latest_image /\ frames' = frames ]_vars

\* A turn has attached a frame to its user message, the loop has written a
\* later frame since, and the message still holds the frame it read.
C17_Witness ==
    /\ latest_image = 2
    /\ \E i \in 1..Len(chat_context) :
          chat_context[i].role = "user" /\ chat_context[i].image = 1

\* C20: until the greeting's say has returned, process_video is not started
\* and the frame cache is absent, so the user message of every turn composed
\* up to then, use_image or not, carries no image.
C20_NoImageBeforeGreetingEnds ==
    mpc \in {"sleep", "greeting"}
    => /\ vpc = "off"
       /\ latest_image = 0 /\ frames = 0
       /\ \A i \in 1..Len(chat_context) : chat_context[i].image = 0

\* During the greeting a turn with use_image = true, started by a function
\* call, has appended its user message.
C20_Witness ==
    /\ mpc = "greeting"
    /\ \E i \in 1..Len(chat_context) :
          /\ chat_context[i].role = "user"
          /\ chat_context[i].turn \in Answers
          /\ turn[chat_context[i].turn].use_image
          /\ chat_context[i].image = 0

\* --------------------------------------------------- claims of VideoSpec
\* C7: the frame cache is a last-write-wins single slot: latest_image is
\* absent exactly when no frame was ever written, and is otherwise the frame
\* written last (frames are numbered by their writes), whatever the loop did
\* since.
C7_LastWriteWins ==
    /\ (latest_image = 0) <=> (frames = 0)
    /\ latest_image = frames

\* Two frames were written, the stream then raised, and the loop is in its
\* backoff.
C7_Witness == frames = 2 /\ vpc = "backoff" /\ latest_image = 2

\* The video tracks of the room in discovery order: participants in dict
\* order, and the publications of each in dict order.
VideoTracks(r) ==
    { pi \in (1..Len(r)) \X (1..MaxPublications) :
        pi[2] <= Len(r[pi[1]]) /\ r[pi[1]][pi[2]] = "RemoteVideoTrack" }

Earlier(a, b) == a[1] < b[1] \/ (a[1] = b[1] /\ a[2] <= b[2])

\* C9: when process_video waits for a source and a participant has by then
\* published a video track, the loop eventually subscribes to it (or the
\* session is disconnected).
C9_EventuallySubscribes ==
    (vpc = "await_future" /\ VideoTracks(room) # {})
        ~> (vpc = "stream" \/ connection_state # "connected")

\* C10: whenever process_video looks for a source in a connected room that
\* holds video tracks, get_video_track returns the first one in discovery
\* order and the loop reads its stream.
C10_FirstTrack ==
    [][ (vpc = "test" /\ vpc' # "test" /\ connection_state = "connected"
            /\ VideoTracks(room) # {})
        => /\ vpc' = "stream"
           /\ video_track' \in VideoTracks(room)
           /\ \A other \in VideoTracks(room) : Earlier(video_track', other) ]_vars

\* C11, as stated: whenever the loop leaves a stream, by the loss of the
\* source or by an error, it waits the backoff before it looks for a source
\* again.
C11_BackoffAlways ==
    [][ (vpc = "stream" /\ vpc' # "stream") => vpc' = "backoff" ]_vars

\* C11, amended: the loop ends only when it finds the session disconnected;
\* after a stream error it waits the backoff and then always looks for a
\* source again, and after a stream that ends without error it looks for a
\* source again at once, with no backoff.
C11_NeverTerminates ==
    /\ [][ /\ (vpc # "stopped" /\ vpc' = "stopped")
                => (vpc = "test" /\ connection_state # "connected")
           /\ (vpc = "stream" /\ vpc' # "stream") => vpc' \in {"backoff", "test"}
           /\ (vpc = "backoff" /\ vpc' # "backoff") => vpc' = "test" ]_vars
    /\ (vpc = "backoff") ~> (vpc = "test")

\* After an error the loop has found a source again and reads its stream.
C11_Witness == "video_error" \in log /\ vpc = "stream" /\ connection_state = "connected"

\* C12: once the transport is disconnected, entrypoint returns and
\* process_video stops, in whatever state it was.
C12_AllLoopsStop ==
    (connection_state = "disconnected") ~> (mpc = "returned" /\ vpc = "stopped")

====
